---- MODULE Spec2Model ----
(***************************************************************************)
(* Model of src/avatar/avatar_3d.py: the ISLAvatar skeletal gesture engine. *)
(*                                                                         *)
(* Numbers.  Every float of the program (seconds, metres, radians) is an   *)
(* integer number of ticks, Unit ticks to 1.0.  Unit is chosen so that     *)
(* every timestamp, pause and coordinate the builders compute is a whole   *)
(* number of ticks, so sums and products are exact.  The three sine curves *)
(* are tabulated to the nearest tick; a float that is tiny but not zero    *)
(* (sin of a multiple of pi) is kept as one tick, so it stays nonzero.     *)
(*                                                                         *)
(* Objects.  A Python Joint is a mutable object: `heap` maps the address   *)
(* of every Joint object to its fields, and a dict of joints (the skeleton,*)
(* a frame's joints) maps a joint name to an address.                      *)
(***************************************************************************)
EXTENDS Integers, Sequences, FiniteSets, TLC

VARIABLES pc, heap, skeleton, built, gesture_database, current_pose,
          animation_speed, call, result

vars == <<pc, heap, skeleton, built, gesture_database, current_pose,
          animation_speed, call, result>>

----------------------------------------------------------------------------
(* Numbers *)

Unit == 2 * 2 * 3 * 3 * 5 * 5 * 7 * 11 * 19

\* the decimal literal n/d, in ticks
Dec(n, d) == (n * Unit) \div d

Abs(x) == IF x < 0 THEN -x ELSE x

RECURSIVE GCD(_, _)
GCD(a, b) == IF b = 0 THEN a ELSE GCD(b, a % b)

\* a * (b / c) over the reals, rounded down to a tick; the quotient a / c is
\* reduced first so that the product stays inside the integers TLC has.
MulDiv(a, b, c) ==
    LET s == IF c < 0 THEN -1 ELSE 1
        g == GCD(Abs(a), Abs(c))
    IN  (((s * a) \div g) * b) \div (Abs(c) \div g)

None == "None"

----------------------------------------------------------------------------
(* Joint, GestureFrame *)

\* Joint.__init__ and __post_init__: children defaults to a fresh empty list
Joint(name, position, rotation, parent, children) ==
    [name |-> name, position |-> position, rotation |-> rotation,
     parent |-> parent,
     children |-> IF children = None THEN <<>> ELSE children]

GestureFrame(timestamp, joints) == [timestamp |-> timestamp, joints |-> joints]

Zero3 == <<0, 0, 0>>

\* the dict literal of _create_skeleton, in insertion order
skeleton_literal == <<
    Joint("head", <<0, Dec(18, 10), 0>>, Zero3, None, None),
    Joint("neck", <<0, Dec(16, 10), 0>>, Zero3, None, <<"head">>),
    Joint("left_shoulder", <<-Dec(3, 10), Dec(15, 10), 0>>, Zero3, None, <<"left_elbow">>),
    Joint("left_elbow", <<-Dec(5, 10), Dec(12, 10), 0>>, Zero3, "left_shoulder", <<"left_wrist">>),
    Joint("left_wrist", <<-Dec(7, 10), Dec(9, 10), 0>>, Zero3, "left_elbow", <<"left_hand">>),
    Joint("left_hand", <<-Dec(8, 10), Dec(7, 10), 0>>, Zero3, "left_wrist", None),
    Joint("right_shoulder", <<Dec(3, 10), Dec(15, 10), 0>>, Zero3, None, <<"right_elbow">>),
    Joint("right_elbow", <<Dec(5, 10), Dec(12, 10), 0>>, Zero3, "right_shoulder", <<"right_wrist">>),
    Joint("right_wrist", <<Dec(7, 10), Dec(9, 10), 0>>, Zero3, "right_elbow", <<"right_hand">>),
    Joint("right_hand", <<Dec(8, 10), Dec(7, 10), 0>>, Zero3, "right_wrist", None),
    Joint("spine", <<0, Dec(13, 10), 0>>, Zero3, None, <<"left_shoulder", "right_shoulder", "neck">>),
    Joint("hip", <<0, Dec(9, 10), 0>>, Zero3, None, <<"spine">>) >>

JointNames == { skeleton_literal[a].name : a \in DOMAIN skeleton_literal }

\* the address of the Joint object the dict literal creates for `name`
AddrOf(name) == CHOOSE a \in DOMAIN skeleton_literal : skeleton_literal[a].name = name

\* the parent-linking loop of _create_skeleton (lines 68-70), over the first k
\* items of the dict: a joint with a parent is appended to the parent's children
RECURSIVE link_parents(_, _)
link_parents(h, k) ==
    IF k = 0 THEN h
    ELSE LET g == link_parents(h, k - 1)
             joint == g[k]
         IN  IF joint.parent # None
             THEN LET p == AddrOf(joint.parent)
                  IN  [g EXCEPT ![p].children = Append(@, joint.name)]
             ELSE g

\* _create_skeleton: the Joint objects it allocates, and the dict it returns
create_skeleton ==
    [heap |-> link_parents(skeleton_literal, Len(skeleton_literal)),
     dict |-> [n \in JointNames |-> AddrOf(n)]]

----------------------------------------------------------------------------
(* Gesture builders *)

\* variant: the copy misses the last key of the dict
copy_without_hip(d) == [n \in DOMAIN d \ {"hip"} |-> d[n]]

\* dict.copy(): a new dict holding the same Joint objects (a shallow copy)
copy(d) == d

\* math.sin(t * math.pi * 2) * 0.3 for t = i / 9.0, i = 0..9
wave_angle == <<0, 253908, 389009, 342089, 135101,
                -135101, -342089, -389009, -253908, -1>>

\* math.sin(t * math.pi) * 0.2 for t = i / 7.0, i = 0..7
nod_angle == <<0, 114259, 205888, 256738, 256738, 205888, 114259, 1>>

\* math.sin(t * math.pi * 4) * 0.3 for t = i / 11.0, i = 0..11
shake_angle == <<0, 359314, 298529, -111287, -390989, -213559,
                 213559, 390989, 111287, -298529, -359314, -1>>

SetRotation(h, a, r) == [h EXCEPT ![a].rotation = r]
SetPosition(h, a, p) == [h EXCEPT ![a].position = p]

\* variant: t = i / n, the divisor one too large
Sample_over_n(i, n, x) == (i * x) \div n

\* variant: t runs from 1 down to 0
Sample_reversed(i, n, x) == ((n - 1 - i) * x) \div (n - 1)

\* variant: t stays 0
Sample_stuck(i, n, x) == 0

\* t * x for t = i / (n - 1.0)
Sample(i, n, x) == (i * x) \div (n - 1)

hello_sample(h, joints, i) ==
    SetRotation(SetRotation(h, joints["right_wrist"], <<0, 0, wave_angle[i + 1]>>),
                joints["right_hand"], <<0, 0, wave_angle[i + 1]>>)

thank_you_sample(h, joints, i) ==
    LET chest_y == Dec(12, 10) + Sample(i, 15, Dec(3, 10))
    IN  SetPosition(SetPosition(h, joints["left_hand"], <<-Dec(2, 10), chest_y, Dec(1, 10)>>),
                    joints["right_hand"], <<Dec(2, 10), chest_y, Dec(1, 10)>>)

yes_sample(h, joints, i) ==
    SetRotation(SetRotation(h, joints["head"], <<nod_angle[i + 1], 0, 0>>),
                joints["neck"], <<nod_angle[i + 1], 0, 0>>)

no_sample(h, joints, i) ==
    SetRotation(SetRotation(h, joints["head"], <<0, 0, shake_angle[i + 1]>>),
                joints["neck"], <<0, 0, shake_angle[i + 1]>>)

good_sample(h, joints, i) ==
    SetRotation(SetRotation(h, joints["right_hand"], <<0, 0, Dec(157, 100)>>),
                joints["right_wrist"], <<0, 0, Dec(3, 10)>>)

bad_sample(h, joints, i) ==
    SetRotation(SetRotation(h, joints["right_hand"], <<0, 0, -Dec(157, 100)>>),
                joints["right_wrist"], <<0, 0, -Dec(3, 10)>>)

water_sample(h, joints, i) ==
    LET mouth_y == Dec(16, 10) - Sample(i, 15, Dec(4, 10))
    IN  SetRotation(SetPosition(h, joints["right_hand"], <<Dec(1, 10), mouth_y, Dec(2, 10)>>),
                    joints["right_elbow"], <<0, 0, Sample(i, 15, Dec(5, 10))>>)

food_sample(h, joints, i) ==
    \* abs(t - 0.5) * 0.8 for t = i / 11.0 is |2i - 11| / 22 * 0.8
    LET mouth_y == Dec(16, 10) - (Abs(2 * i - 11) * Dec(8, 10)) \div 22
    IN  SetPosition(h, joints["right_hand"], <<Dec(1, 10), mouth_y, Dec(2, 10)>>)

home_sample(h, joints, i) ==
    \* t < 0.5 for t = i / 19.0
    IF 2 * i < 19
    THEN LET height == Sample(i, 20, Dec(4, 10))
         IN  SetPosition(SetPosition(h, joints["left_hand"],
                                     <<-Dec(3, 10), Dec(12, 10) + height, Dec(1, 10)>>),
                         joints["right_hand"], <<Dec(3, 10), Dec(12, 10) + height, Dec(1, 10)>>)
    ELSE SetPosition(SetPosition(h, joints["left_hand"], <<-Dec(3, 10), Dec(14, 10), Dec(1, 10)>>),
                     joints["right_hand"], <<Dec(3, 10), Dec(14, 10), Dec(1, 10)>>)

school_sample(h, joints, i) ==
    SetRotation(SetPosition(h, joints["right_hand"],
                            <<Dec(2, 10) + Sample(i, 15, Dec(3, 10)), Dec(10, 10), Dec(1, 10)>>),
                joints["right_wrist"], <<0, 0, Sample(i, 15, Dec(2, 10))>>)

\* the loop body of the builder of `gesture`, for sample i
sample(gesture, h, joints, i) ==
    CASE gesture = "HELLO" -> hello_sample(h, joints, i)
      [] gesture = "THANK_YOU" -> thank_you_sample(h, joints, i)
      [] gesture = "YES" -> yes_sample(h, joints, i)
      [] gesture = "NO" -> no_sample(h, joints, i)
      [] gesture = "GOOD" -> good_sample(h, joints, i)
      [] gesture = "BAD" -> bad_sample(h, joints, i)
      [] gesture = "WATER" -> water_sample(h, joints, i)
      [] gesture = "FOOD" -> food_sample(h, joints, i)
      [] gesture = "HOME" -> home_sample(h, joints, i)
      [] gesture = "SCHOOL" -> school_sample(h, joints, i)

\* The shape every builder has: the initial frame on a copy of the skeleton,
\* then n samples, each on a copy of the skeleton whose joints the loop body
\* assigns, at timestamp t * duration.
\* variant: the initial frame is not appended
BuildGesture_without_initial(h, sk, gesture, n, duration) ==
    LET joints == copy(sk)
        H[i \in 0..n] == IF i = 0 THEN h ELSE sample(gesture, H[i - 1], joints, i - 1)
    IN  [frames |-> [k \in 1..n |-> GestureFrame(Sample(k - 1, n, duration), joints)],
         heap |-> H[n]]

BuildGesture(h, sk, gesture, n, duration) ==
    LET joints == copy(sk)
        H[i \in 0..n] == IF i = 0 THEN h ELSE sample(gesture, H[i - 1], joints, i - 1)
    IN  [frames |-> <<GestureFrame(0, copy(sk))>> \o
                    [k \in 1..n |-> GestureFrame(Sample(k - 1, n, duration), joints)],
         heap |-> H[n]]

create_hello_gesture(h, sk) == BuildGesture(h, sk, "HELLO", 10, Dec(20, 10))
create_thank_you_gesture(h, sk) == BuildGesture(h, sk, "THANK_YOU", 15, Dec(15, 10))
create_yes_gesture(h, sk) == BuildGesture(h, sk, "YES", 8, Dec(10, 10))
create_no_gesture(h, sk) == BuildGesture(h, sk, "NO", 12, Dec(12, 10))
create_good_gesture(h, sk) == BuildGesture(h, sk, "GOOD", 10, Dec(10, 10))
create_bad_gesture(h, sk) == BuildGesture(h, sk, "BAD", 10, Dec(10, 10))
create_water_gesture(h, sk) == BuildGesture(h, sk, "WATER", 15, Dec(20, 10))
create_food_gesture(h, sk) == BuildGesture(h, sk, "FOOD", 12, Dec(15, 10))
create_home_gesture(h, sk) == BuildGesture(h, sk, "HOME", 20, Dec(25, 10))
create_school_gesture(h, sk) == BuildGesture(h, sk, "SCHOOL", 15, Dec(20, 10))

\* variant: one key spelled with a space
GestureNames_renamed == <<"HELLO", "THANK YOU", "YES", "NO", "GOOD", "BAD",
                          "WATER", "FOOD", "HOME", "SCHOOL">>

\* the keys of the dict literal of _load_gesture_database, in evaluation order
GestureNames == <<"HELLO", "THANK_YOU", "YES", "NO", "GOOD", "BAD",
                  "WATER", "FOOD", "HOME", "SCHOOL">>

\* the builder the dict literal calls for its k-th entry
create_gesture(k, h, sk) ==
    CASE k = 1 -> create_hello_gesture(h, sk)
      [] k = 2 -> create_thank_you_gesture(h, sk)
      [] k = 3 -> create_yes_gesture(h, sk)
      [] k = 4 -> create_no_gesture(h, sk)
      [] k = 5 -> create_good_gesture(h, sk)
      [] k = 6 -> create_bad_gesture(h, sk)
      [] k = 7 -> create_water_gesture(h, sk)
      [] k = 8 -> create_food_gesture(h, sk)
      [] k = 9 -> create_home_gesture(h, sk)
      [] k = 10 -> create_school_gesture(h, sk)

----------------------------------------------------------------------------
(* Dicts that keep insertion order: the keys in order, and the values *)

EmptyDict == [keys |-> <<>>, vals |-> <<>>]

Range(s) == { s[i] : i \in DOMAIN s }

HasKey(d, k) == k \in Range(d.keys)

DictFromItems(items) ==
    [keys |-> [i \in DOMAIN items |-> items[i][1]],
     vals |-> [k \in { items[i][1] : i \in DOMAIN items } |->
                 items[CHOOSE i \in DOMAIN items : items[i][1] = k][2]]]

----------------------------------------------------------------------------
(* Text: a str is the sequence of its characters *)

LowerCase == <<"a", "b", "c", "d", "e", "f", "g", "h", "i", "j", "k", "l", "m",
               "n", "o", "p", "q", "r", "s", "t", "u", "v", "w", "x", "y", "z">>
UpperCase == <<"A", "B", "C", "D", "E", "F", "G", "H", "I", "J", "K", "L", "M",
               "N", "O", "P", "Q", "R", "S", "T", "U", "V", "W", "X", "Y", "Z">>

Whitespace == {" ", "\t", "\n"}

\* variant: the text is matched as it was written
upper_as_written(text) == text

\* str.upper(): lower-case letters to upper case, every other character kept
upper(text) ==
    [i \in DOMAIN text |->
        IF \E j \in DOMAIN LowerCase : LowerCase[j] = text[i]
        THEN UpperCase[CHOOSE j \in DOMAIN LowerCase : LowerCase[j] = text[i]]
        ELSE text[i]]

\* str.split(): the maximal runs of non-whitespace characters, in order
RECURSIVE split_from(_, _, _, _)
split_from(text, i, word, words) ==
    IF i > Len(text)
    THEN IF word = <<>> THEN words ELSE Append(words, word)
    ELSE IF text[i] \in Whitespace
         THEN split_from(text, i + 1, <<>>,
                         IF word = <<>> THEN words ELSE Append(words, word))
         ELSE split_from(text, i + 1, Append(word, text[i]), words)

split(text) == split_from(text, 1, <<>>, <<>>)

\* the str a sequence of characters spells (a dict key is a str)
RECURSIVE Str(_)
Str(chars) == IF chars = <<>> THEN "" ELSE chars[1] \o Str(Tail(chars))

----------------------------------------------------------------------------
(* Outcomes of a call *)

Return(v) == [kind |-> "return", value |-> v]
Raise(e) == [kind |-> "raise", value |-> e]

----------------------------------------------------------------------------
(* animate_gesture *)

\* variant: the missing key is looked up anyway
gesture_not_found_raises(gesture_name) == Raise("KeyError")

\* the branch taken when gesture_name is not a key: a warning, and []
gesture_not_found(gesture_name) == Return(<<>>)

\* variant: the scale factor inverted, original_duration / duration
scale_timestamp_inverted(timestamp, duration, original_duration) ==
    MulDiv(timestamp, original_duration, duration)

\* frame.timestamp * scale_factor with scale_factor = duration / original_duration
scale_timestamp(timestamp, duration, original_duration) ==
    MulDiv(timestamp, duration, original_duration)

\* An Optional[float]: <<>> is None, <<d>> is the float d
NoDuration == <<>>
Some(d) == <<d>>

\* `if duration:` is false for None and for 0
truthy(duration) == duration # NoDuration /\ duration[1] # 0

\* variant: an omitted duration plays the gesture in 1.0 s
unscaled_in_one_second(gesture_frames) ==
    [k \in DOMAIN gesture_frames |->
        GestureFrame(scale_timestamp(gesture_frames[k].timestamp, Unit,
                                     gesture_frames[Len(gesture_frames)].timestamp),
                     gesture_frames[k].joints)]

\* line 346, `return gesture_frames`: the list the catalog holds
unscaled(gesture_frames) == gesture_frames

animate_gesture(db, gesture_name, duration) ==
    IF ~HasKey(db, gesture_name)
    THEN gesture_not_found(gesture_name)
    ELSE LET gesture_frames == db.vals[gesture_name]
         IN  IF truthy(duration)
             THEN IF gesture_frames = <<>>
                  THEN Raise("IndexError")
                  ELSE LET original_duration == gesture_frames[Len(gesture_frames)].timestamp
                       IN  IF original_duration = 0
                           THEN Raise("ZeroDivisionError")
                           ELSE Return([k \in DOMAIN gesture_frames |->
                                   GestureFrame(scale_timestamp(gesture_frames[k].timestamp,
                                                                duration[1], original_duration),
                                                gesture_frames[k].joints)])
             ELSE Return(unscaled(gesture_frames))

----------------------------------------------------------------------------
(* animate_text *)

\* variant: the inter-letter pause used between words
word_pause_short == Dec(2, 10)

word_pause == Dec(5, 10)
letter_pause == Dec(2, 10)

\* variant: the frames appended without the shift
offset_frames_unshifted(gesture_frames, current_time) == gesture_frames

\* the loop that appends every frame of gesture_frames, shifted by current_time
offset_frames(gesture_frames, current_time) ==
    [k \in DOMAIN gesture_frames |->
        GestureFrame(gesture_frames[k].timestamp + current_time, gesture_frames[k].joints)]

\* variant: the clock advanced by the pause alone
advance_pause_only(current_time, gesture_frames, pause) == current_time + pause

\* current_time += gesture_frames[-1].timestamp + pause
advance(current_time, gesture_frames, pause) ==
    current_time + gesture_frames[Len(gesture_frames)].timestamp + pause

\* one gesture played into the timeline: acc is (all_frames, current_time)
play_into(db, name, pause, acc) ==
    LET gesture_frames == animate_gesture(db, name, NoDuration).value
    IN  [all_frames |-> acc.all_frames \o offset_frames(gesture_frames, acc.current_time),
         current_time |-> advance(acc.current_time, gesture_frames, pause)]

\* variant: a letter that is no key still costs the inter-letter pause
spell_letter_advancing(db, letter, acc) ==
    IF HasKey(db, letter) THEN play_into(db, letter, letter_pause, acc)
    ELSE [acc EXCEPT !.current_time = @ + letter_pause]

\* variant: a letter that is no key is shown as the first gesture of the catalog
spell_letter_default(db, letter, acc) ==
    play_into(db, IF HasKey(db, letter) THEN letter ELSE db.keys[1], letter_pause, acc)

\* the body of `for letter in word`: a letter that is no key changes nothing
spell_letter(db, letter, acc) ==
    IF HasKey(db, letter) THEN play_into(db, letter, letter_pause, acc) ELSE acc

RECURSIVE spell_word(_, _, _, _)
spell_word(db, word, j, acc) ==
    IF j > Len(word) THEN acc
    ELSE spell_word(db, word, j + 1, spell_letter(db, word[j], acc))

\* the body of `for word in words`
animate_word(db, word, acc) ==
    IF HasKey(db, Str(word))
    THEN play_into(db, Str(word), word_pause, acc)
    ELSE spell_word(db, word, 1, acc)

RECURSIVE animate_words(_, _, _, _)
animate_words(db, words, k, acc) ==
    IF k > Len(words) THEN acc
    ELSE animate_words(db, words, k + 1, animate_word(db, words[k], acc))

animate_text(db, text) ==
    LET words == split(upper(text))
    IN  Return(animate_words(db, words, 1, [all_frames |-> <<>>, current_time |-> 0]).all_frames)

----------------------------------------------------------------------------
(* get_available_gestures, export_animation *)

get_available_gestures(db) == Return(db.keys)

\* A JSON document, as json.dumps writes it: numbers, arrays, and objects whose
\* members keep the order in which the dict was filled
JNumber(x) == [type |-> "number", value |-> x]
JArray(items) == [type |-> "array", items |-> items]
JObject(members) == [type |-> "object", members |-> members]

\* the keys of a dict of joints in iteration order: the order of the skeleton
\* dict it was copied from
JointOrder(joints) ==
    SelectSeq([a \in DOMAIN skeleton_literal |-> skeleton_literal[a].name],
              LAMBDA n : n \in DOMAIN joints)

\* a tuple of floats is written as an array of numbers
dumps_tuple(t) == JArray([c \in DOMAIN t |-> JNumber(t[c])])

dumps_joint(joint_data) ==
    JObject(<< <<"position", dumps_tuple(joint_data.position)>>,
               <<"rotation", dumps_tuple(joint_data.rotation)>> >>)

dumps_frame(frame_data) ==
    JObject(<< <<"timestamp", JNumber(frame_data.timestamp)>>,
               <<"joints", JObject([i \in DOMAIN JointOrder(frame_data.joints) |->
                    <<JointOrder(frame_data.joints)[i],
                      dumps_joint(frame_data.joints[JointOrder(frame_data.joints)[i]])>>])>> >>)

\* json.dumps of the animation_data dict: the document it writes
json_dumps(animation_data) ==
    JObject(<< <<"frames", JArray([k \in DOMAIN animation_data.frames |->
                                     dumps_frame(animation_data.frames[k])])>>,
               <<"duration", JNumber(animation_data.duration)>> >>)

\* variant: the duration taken from the first frame
animation_duration_first(frames) ==
    IF frames # <<>> THEN frames[1].timestamp ELSE 0

\* variant: no frames reported by the sentinel -1.0
animation_duration_sentinel(frames) ==
    IF frames # <<>> THEN frames[Len(frames)].timestamp ELSE -Unit

\* 'duration': frames[-1].timestamp if frames else 0.0
animation_duration(frames) ==
    IF frames # <<>> THEN frames[Len(frames)].timestamp ELSE 0

\* variant: the rotation written under both keys
joint_data_rotation_twice(joint) ==
    [position |-> joint.rotation, rotation |-> joint.rotation]

\* frame_data['joints'][joint_name] = {'position': ..., 'rotation': ...}
joint_data(joint) ==
    [position |-> joint.position, rotation |-> joint.rotation]

\* variant: an unknown format is an error
unsupported_format_raises(format) == Raise("ValueError")

\* the else branch: a warning, and the empty string
unsupported_format(format) == Return("")

export_animation(h, frames, format) ==
    IF format = "json"
    THEN Return(json_dumps(
            [frames |-> [k \in DOMAIN frames |->
                           [timestamp |-> frames[k].timestamp,
                            joints |-> [n \in DOMAIN frames[k].joints |->
                                          joint_data(h[frames[k].joints[n]])]]],
             duration |-> animation_duration(frames)]))
    ELSE unsupported_format(format)

----------------------------------------------------------------------------
(* Inputs *)

MaxTokens == 3
MaxHalfSeconds == 6

\* words a caller writes: catalog names in either case, and other words
Vocabulary == { <<"H", "E", "L", "L", "O">>, <<"Y", "E", "S">>, <<"y", "e", "s">>,
                <<"N", "o">>, <<"Z", "Z">>, <<"H", "E", "L", "L", "O", ",">> }

Separators == { <<" ">>, <<" ", "\t">> }
Paddings == { <<>>, <<" ">> }

RECURSIVE join(_, _)
join(ws, sep) ==
    IF ws = <<>> THEN <<>>
    ELSE IF Len(ws) = 1 THEN ws[1]
    ELSE ws[1] \o sep \o join(Tail(ws), sep)

TokenSeqs == UNION { [1..n -> Vocabulary] : n \in 0..MaxTokens }

Texts == { pad \o join(ws, sep) \o pad :
             ws \in TokenSeqs, sep \in Separators, pad \in Paddings }

Names == Range(GestureNames) \cup {"NONEXISTENT", "hello", "Z", ""}

Durations == {NoDuration} \cup { Some(Dec(k, 2)) : k \in (-2)..MaxHalfSeconds }

Formats == {"json", "bvh", "fbx"}

----------------------------------------------------------------------------
(* The state machine *)

NoCall == [op |-> None, gesture_name |-> None, duration |-> NoDuration,
           text |-> None, frames |-> None, format |-> None]
NoResult == [kind |-> "none", value |-> None]

Init ==
    /\ pc = "init"
    /\ heap = <<>>
    /\ skeleton = None
    /\ built = <<>>
    /\ gesture_database = None
    /\ current_pose = None
    /\ animation_speed = None
    /\ call = NoCall
    /\ result = NoResult

\* __init__, line 38: self.skeleton = self._create_skeleton()
CreateSkeleton ==
    /\ pc = "init"
    /\ heap' = create_skeleton.heap
    /\ skeleton' = create_skeleton.dict
    /\ pc' = "load"
    /\ UNCHANGED <<built, gesture_database, current_pose, animation_speed, call, result>>

\* _load_gesture_database: the next entry of the dict literal is evaluated
CreateGesture ==
    /\ pc = "load"
    /\ Len(built) < Len(GestureNames)
    /\ LET k == Len(built) + 1
           r == create_gesture(k, heap, skeleton)
       IN  /\ heap' = r.heap
           /\ built' = Append(built, <<GestureNames[k], r.frames>>)
    /\ UNCHANGED <<pc, skeleton, gesture_database, current_pose, animation_speed,
                   call, result>>

\* _load_gesture_database returns; __init__, lines 39-41
FinishInit ==
    /\ pc = "load"
    /\ Len(built) = Len(GestureNames)
    /\ gesture_database' = DictFromItems(built)
    /\ current_pose' = EmptyDict
    /\ animation_speed' = Dec(10, 10)
    /\ built' = <<>>
    /\ pc' = "ready"
    /\ UNCHANGED <<heap, skeleton, call, result>>

\* variant: the last pose played is kept in current_pose
AnimateGesture_posing ==
    /\ pc = "ready"
    /\ \E gesture_name \in Names, duration \in Durations :
          /\ call' = [NoCall EXCEPT !.op = "animate_gesture",
                                    !.gesture_name = gesture_name,
                                    !.duration = duration]
          /\ result' = animate_gesture(gesture_database, gesture_name, duration)
    /\ current_pose' = IF result'.kind = "return" /\ result'.value # <<>>
                       THEN [keys |-> JointOrder(result'.value[Len(result'.value)].joints),
                             vals |-> result'.value[Len(result'.value)].joints]
                       ELSE current_pose
    /\ pc' = "returned"
    /\ UNCHANGED <<heap, skeleton, built, gesture_database, animation_speed>>

AnimateGesture ==
    /\ pc = "ready"
    /\ \E gesture_name \in Names, duration \in Durations :
          /\ call' = [NoCall EXCEPT !.op = "animate_gesture",
                                    !.gesture_name = gesture_name,
                                    !.duration = duration]
          /\ result' = animate_gesture(gesture_database, gesture_name, duration)
    /\ pc' = "returned"
    /\ UNCHANGED <<heap, skeleton, built, gesture_database, current_pose, animation_speed>>

AnimateText ==
    /\ pc = "ready"
    /\ \E text \in Texts :
          /\ call' = [NoCall EXCEPT !.op = "animate_text", !.text = text]
          /\ result' = animate_text(gesture_database, text)
    /\ pc' = "returned"
    /\ UNCHANGED <<heap, skeleton, built, gesture_database, current_pose, animation_speed>>

GetAvailableGestures ==
    /\ pc = "ready"
    /\ call' = [NoCall EXCEPT !.op = "get_available_gestures"]
    /\ result' = get_available_gestures(gesture_database)
    /\ pc' = "returned"
    /\ UNCHANGED <<heap, skeleton, built, gesture_database, current_pose, animation_speed>>

\* the frame sequences a caller exports: none, or what animate_gesture or
\* animate_text gave it
ExportInputs ==
    {<<>>}
    \cup { animate_gesture(gesture_database, g, d).value :
             g \in Range(GestureNames), d \in Durations }
    \cup { animate_text(gesture_database, t).value : t \in Texts }

ExportAnimation ==
    /\ pc = "ready"
    /\ \E frames \in ExportInputs, format \in Formats :
          /\ call' = [NoCall EXCEPT !.op = "export_animation",
                                    !.frames = frames, !.format = format]
          /\ result' = export_animation(heap, frames, format)
    /\ pc' = "returned"
    /\ UNCHANGED <<heap, skeleton, built, gesture_database, current_pose, animation_speed>>

\* the caller takes the result; the engine is ready for the next call
Done ==
    /\ pc = "returned"
    /\ pc' = "ready"
    /\ call' = NoCall
    /\ result' = NoResult
    /\ UNCHANGED <<heap, skeleton, built, gesture_database, current_pose, animation_speed>>

Next ==
    \/ CreateSkeleton
    \/ CreateGesture
    \/ FinishInit
    \/ AnimateGesture
    \/ AnimateText
    \/ GetAvailableGestures
    \/ ExportAnimation
    \/ Done

Spec == Init /\ [][Next]_vars

----------------------------------------------------------------------------
(* Properties *)

Constructed == pc \in {"ready", "returned"}

\* what _create_skeleton assigns to the joint `name`
RestPosition(name) == skeleton_literal[AddrOf(name)].position
RestRotation(name) == skeleton_literal[AddrOf(name)].rotation

\* the Joint objects of a dict of joints all hold the rest pose
AtRest(joints) ==
    \A n \in DOMAIN joints :
        /\ heap[joints[n]].position = RestPosition(n)
        /\ heap[joints[n]].rotation = RestRotation(n)

Returned(op) == pc = "returned" /\ call.op = op

\* a / b = c / d, for b and d not 0, by comparing the fractions in lowest terms
LowestTerms(a, b) ==
    LET g == GCD(Abs(a), Abs(b))
        s == IF b < 0 THEN -1 ELSE 1
    IN  <<(s * a) \div g, (s * b) \div g>>
SameRatio(a, b, c, d) == LowestTerms(a, b) = LowestTerms(c, d)

FinalTimestamp(frames) == frames[Len(frames)].timestamp

\* C1: after construction and after any sequence of animate_gesture,
\* animate_text and export_animation calls, every joint of self.skeleton still
\* has the position and the rotation (0,0,0) that _create_skeleton gave it.
C1_SkeletonNeverMutated == Constructed => AtRest(skeleton)

\* C2: for a catalog gesture g and a duration D > 0, animate_gesture(g, D)
\* returns as many frames as the catalog holds for g, in the same order; frame
\* k's timestamp is the catalog's timestamp of frame k times D / (the catalog's
\* final timestamp of g), the final timestamp is D, and frame k's pose is the
\* catalog's pose of frame k.
C2_RescalingLaw ==
    (/\ Returned("animate_gesture")
     /\ HasKey(gesture_database, call.gesture_name)
     /\ call.duration # NoDuration
     /\ call.duration[1] > 0)
    => LET catalog == gesture_database.vals[call.gesture_name]
           D == call.duration[1]
           out == result.value
       IN  /\ result.kind = "return"
           /\ Len(out) = Len(catalog)
           /\ \A k \in DOMAIN catalog :
                 /\ IF catalog[k].timestamp = 0
                    THEN out[k].timestamp = 0
                    ELSE SameRatio(out[k].timestamp, catalog[k].timestamp,
                                   D, FinalTimestamp(catalog))
                 /\ out[k].joints = catalog[k].joints
           /\ FinalTimestamp(out) = D

C2_Witness ==
    /\ Returned("animate_gesture")
    /\ call.gesture_name = "THANK_YOU"
    /\ call.duration = Some(Dec(5, 2))
    /\ Len(result.value) = 16
    /\ result.value[9].timestamp = Dec(5, 4)
    /\ FinalTimestamp(result.value) = Dec(5, 2)

\* C3: for a catalog gesture g and a duration D <= 0 (D = 0 included),
\* animate_gesture(g, D) fails and returns no frame sequence.
C3_NonPositiveDurationRejected ==
    (/\ Returned("animate_gesture")
     /\ HasKey(gesture_database, call.gesture_name)
     /\ call.duration # NoDuration
     /\ call.duration[1] <= 0)
    => result.kind = "raise"

\* the timeline `out` is the concatenation of the catalog frames of the
\* gestures units[1].name, units[2].name, ... in this order, those of unit k
\* shifted by the clock c_k, where c_1 = 0 and c_(k+1) = c_k + (the final
\* catalog timestamp of unit k) + units[k].pause, with the poses carried over
RECURSIVE ClockAt(_, _, _)
ClockAt(db, units, k) ==
    IF k = 1 THEN 0
    ELSE ClockAt(db, units, k - 1)
         + FinalTimestamp(db.vals[units[k - 1].name]) + units[k - 1].pause

RECURSIVE FramesBefore(_, _, _)
FramesBefore(db, units, k) ==
    IF k = 1 THEN 0
    ELSE FramesBefore(db, units, k - 1) + Len(db.vals[units[k - 1].name])

ComposedOf(out, db, units) ==
    /\ Len(out) = FramesBefore(db, units, Len(units) + 1)
    /\ \A k \in DOMAIN units :
          LET catalog == db.vals[units[k].name]
              first == FramesBefore(db, units, k)
          IN  \A j \in DOMAIN catalog :
                 /\ out[first + j].timestamp = catalog[j].timestamp + ClockAt(db, units, k)
                 /\ out[first + j].joints = catalog[j].joints

Tokens(text) == split(upper(text))

AllKnown(db, words) == \A k \in DOMAIN words : HasKey(db, Str(words[k]))

\* C4: for a text whose tokens w1..wn are all catalog names, animate_text
\* returns the concatenation, in token order, of each gesture's catalog frames,
\* those of wk shifted by c_k with c_1 = 0 and c_(k+1) = c_k + (the final
\* catalog timestamp of wk) + 0.5, poses unchanged.
C4_KnownWordsComposition ==
    (Returned("animate_text") /\ AllKnown(gesture_database, Tokens(call.text)))
    => /\ result.kind = "return"
       /\ ComposedOf(result.value, gesture_database,
                     [k \in DOMAIN Tokens(call.text) |->
                        [name |-> Str(Tokens(call.text)[k]), pause |-> Dec(1, 2)]])

C4_Witness ==
    /\ Returned("animate_text")
    /\ Len(Tokens(call.text)) = 3
    /\ AllKnown(gesture_database, Tokens(call.text))
    /\ Str(Tokens(call.text)[1]) = "HELLO"
    /\ Str(Tokens(call.text)[2]) = "YES"
    /\ Len(result.value) = 11 + 9 + 11
    /\ result.value[21].timestamp = Dec(2, 1) + Dec(1, 2) + Dec(1, 1) + Dec(1, 2)

\* C5: for every text, the timestamps of the frames animate_text returns never
\* decrease along the sequence, so the frames of a later token never start
\* before the last frame of an earlier token.
C5_OutputOrdering ==
    Returned("animate_text")
    => /\ result.kind = "return"
       /\ \A i \in 1..(Len(result.value) - 1) :
             result.value[i].timestamp <= result.value[i + 1].timestamp

C5_Witness ==
    /\ Returned("animate_text")
    /\ Len(Tokens(call.text)) >= 2
    /\ AllKnown(gesture_database, Tokens(call.text))
    /\ \E i \in 1..(Len(result.value) - 1) :
          /\ result.value[i].timestamp = Dec(2, 1)
          /\ result.value[i + 1].timestamp = Dec(5, 2)

HelloYes == <<"H", "E", "L", "L", "O", " ", "Y", "E", "S">>

\* the frames of animate_text("HELLO YES"): HELLO's come first, YES's after
HelloPart == 1..Len(gesture_database.vals["HELLO"])
YesPart == (Len(gesture_database.vals["HELLO"]) + 1)..Len(result.value)

\* C6 as stated: in animate_text("HELLO YES"), every timestamp of the YES
\* portion is strictly greater than every timestamp of the HELLO portion plus
\* the 0.5 s pause.
C6_YesStrictlyAfterHelloPlusPause ==
    (Returned("animate_text") /\ call.text = HelloYes)
    => \A h \in HelloPart, y \in YesPart :
          result.value[y].timestamp > result.value[h].timestamp + Dec(1, 2)

\* C6 as amended: in animate_text("HELLO YES"), every timestamp of the YES
\* portion is at least every timestamp of the HELLO portion plus the 0.5 s
\* pause; the first YES frame sits exactly at HELLO's final timestamp + 0.5.
C6_YesAfterHelloPlusPause ==
    (Returned("animate_text") /\ call.text = HelloYes)
    => /\ Len(result.value) = Len(gesture_database.vals["HELLO"])
                              + Len(gesture_database.vals["YES"])
       /\ \A h \in HelloPart, y \in YesPart :
             result.value[y].timestamp >= result.value[h].timestamp + Dec(1, 2)
       /\ result.value[Len(gesture_database.vals["HELLO"]) + 1].timestamp
            = result.value[Len(gesture_database.vals["HELLO"])].timestamp + Dec(1, 2)

C6_Witness ==
    /\ Returned("animate_text")
    /\ call.text = HelloYes
    /\ Len(result.value) = 20
    /\ result.value[11].timestamp = Dec(2, 1)
    /\ result.value[12].timestamp = Dec(5, 2)

\* the gestures a token contributes: itself, with the 0.5 s pause, when it is a
\* catalog name; otherwise its characters that are catalog names, each with the
\* 0.2 s pause, the other characters contributing nothing
RECURSIVE LetterUnits(_, _)
LetterUnits(db, word) ==
    IF word = <<>> THEN <<>>
    ELSE (IF HasKey(db, word[1])
          THEN <<[name |-> word[1], pause |-> Dec(1, 5)]>>
          ELSE <<>>) \o LetterUnits(db, Tail(word))

RECURSIVE TextUnits(_, _)
TextUnits(db, words) ==
    IF words = <<>> THEN <<>>
    ELSE (IF HasKey(db, Str(words[1]))
          THEN <<[name |-> Str(words[1]), pause |-> Dec(1, 2)]>>
          ELSE LetterUnits(db, words[1])) \o TextUnits(db, Tail(words))

\* C7: when a token is not a catalog name, each of its characters that is a
\* catalog name contributes that gesture's frames at the clock and advances the
\* clock by the gesture's final timestamp + 0.2; a character that is no catalog
\* name emits no frame and does not advance the clock, so the timestamps of all
\* later tokens are what they are without it.
C7_SpellingSkipsUnmatched ==
    (Returned("animate_text") /\ ~AllKnown(gesture_database, Tokens(call.text)))
    => /\ result.kind = "return"
       /\ ComposedOf(result.value, gesture_database,
                     TextUnits(gesture_database, Tokens(call.text)))

C7_Witness ==
    /\ Returned("animate_text")
    /\ Len(Tokens(call.text)) = 3
    /\ Str(Tokens(call.text)[1]) = "HELLO"
    /\ Str(Tokens(call.text)[2]) = "ZZ"
    /\ Str(Tokens(call.text)[3]) = "YES"
    /\ Len(result.value) = 20
    /\ result.value[12].timestamp = Dec(5, 2)

ZZ == <<"Z", "Z">>

\* C8 as stated: animate_text("ZZ") is two letter-gesture sub-sequences, one
\* per Z, the second starting at the first one's final timestamp + 0.2.
C8_ZZTwoLetterGestures ==
    (Returned("animate_text") /\ call.text = ZZ)
    => \E m \in 1..Len(result.value) :
          /\ Len(result.value) = 2 * m
          /\ result.value[m + 1].timestamp = result.value[m].timestamp + Dec(1, 5)
          /\ \A j \in 1..m :
                /\ result.value[m + j].joints = result.value[j].joints
                /\ result.value[m + j].timestamp - result.value[j].timestamp
                     = result.value[m + 1].timestamp - result.value[1].timestamp

\* C8 as amended: Z is not a name of the catalog, so animate_text("ZZ")
\* skips both letters and returns the empty sequence.
C8_ZZEmpty ==
    (Returned("animate_text") /\ call.text = ZZ)
    => /\ ~HasKey(gesture_database, "Z")
       /\ result = Return(<<>>)

C8_Witness ==
    /\ Returned("animate_text")
    /\ call.text = ZZ
    /\ Tokens(call.text) = <<ZZ>>
    /\ result.kind = "return"
    /\ Len(result.value) = 0

\* C9: for a name that is no key of the catalog, animate_gesture(name) and
\* animate_gesture(name, D) for any D return the empty sequence, do not raise,
\* and leave the catalog as it was.
C9_NotFound ==
    [][(/\ pc = "ready"
        /\ pc' = "returned"
        /\ call'.op = "animate_gesture"
        /\ ~HasKey(gesture_database, call'.gesture_name))
       => (/\ result' = Return(<<>>)
           /\ gesture_database' = gesture_database
           /\ heap' = heap)]_vars

C9_Witness ==
    /\ Returned("animate_gesture")
    /\ call.gesture_name = "NONEXISTENT"
    /\ call.duration = Some(Dec(2, 1))
    /\ result = Return(<<>>)

\* C10: for every gesture of the catalog after construction, the first frame
\* has timestamp 0 and holds the rest pose: every joint of its joints map has
\* the position and rotation that _create_skeleton gave it.
C10_FirstFrameRestPose ==
    Constructed
    => \A g \in Range(gesture_database.keys) :
          /\ gesture_database.vals[g][1].timestamp = 0
          /\ AtRest(gesture_database.vals[g][1].joints)

\* the joints the builder of a gesture assigns
AssignedJoints(g) ==
    CASE g \in {"HELLO", "GOOD", "BAD", "SCHOOL"} -> {"right_wrist", "right_hand"}
      [] g \in {"YES", "NO"} -> {"head", "neck"}
      [] g \in {"THANK_YOU", "HOME"} -> {"left_hand", "right_hand"}
      [] g = "WATER" -> {"right_hand", "right_elbow"}
      [] g = "FOOD" -> {"right_hand"}

\* C11: in every frame of every catalog gesture, every joint other than those
\* the gesture's builder assigns has its rest-pose position and rotation,
\* whichever gestures were built before or after.
C11_OnlyAssignedJointsMove ==
    Constructed
    => \A g \in Range(gesture_database.keys) :
          \A k \in DOMAIN gesture_database.vals[g] :
             LET joints == gesture_database.vals[g][k].joints
             IN  \A n \in DOMAIN joints \ AssignedJoints(g) :
                    /\ heap[joints[n]].position = RestPosition(n)
                    /\ heap[joints[n]].rotation = RestRotation(n)

SkeletonBuilt == pc # "init"

ParentOf(n) == heap[skeleton[n]].parent
ChildrenOf(n) == heap[skeleton[n]].children

\* the parent relation the skeleton is to have
TreeParent(n) ==
    CASE n = "hip" -> None
      [] n = "spine" -> "hip"
      [] n \in {"neck", "left_shoulder", "right_shoulder"} -> "spine"
      [] n = "head" -> "neck"
      [] n = "left_elbow" -> "left_shoulder"
      [] n = "left_wrist" -> "left_elbow"
      [] n = "left_hand" -> "left_wrist"
      [] n = "right_elbow" -> "right_shoulder"
      [] n = "right_wrist" -> "right_elbow"
      [] n = "right_hand" -> "right_wrist"

\* C12: the skeleton is one tree rooted at hip: hip is the only joint whose
\* parent is None, every other joint's parent is the joint above it (spine->hip,
\* neck->spine, head->neck, shoulders->spine, elbow->shoulder, wrist->elbow,
\* hand->wrist), and c is listed in p's children exactly when c.parent = p.
C12_SkeletonIsTree ==
    SkeletonBuilt
    => /\ \A n \in DOMAIN skeleton : (ParentOf(n) = None) <=> (n = "hip")
       /\ \A n \in DOMAIN skeleton : ParentOf(n) = TreeParent(n)
       /\ \A p \in DOMAIN skeleton, c \in DOMAIN skeleton :
             (c \in Range(ChildrenOf(p))) <=> (ParentOf(c) = p)

\* the joints met by a walk that starts at `n` and follows every entry of every
\* children list, in the order met; `depth` bounds the walk
RECURSIVE Walk(_, _)
RECURSIVE WalkAll(_, _)
Walk(n, depth) ==
    IF depth = 0 THEN <<n>> ELSE <<n>> \o WalkAll(ChildrenOf(n), depth - 1)
WalkAll(names, depth) ==
    IF names = <<>> THEN <<>>
    ELSE Walk(names[1], depth) \o WalkAll(Tail(names), depth)

NoRepeat(s) == \A i \in DOMAIN s, j \in DOMAIN s : s[i] = s[j] => i = j

\* C13: a traversal from hip along the children lists reaches all 11 joints of
\* the skeleton, each exactly once; no joint name occurs twice in a children
\* list once _create_skeleton has run.
C13_TraversalReachesEachOnce ==
    SkeletonBuilt
    => LET walk == Walk("hip", Cardinality(DOMAIN skeleton))
       IN  /\ Cardinality(DOMAIN skeleton) = 11
           /\ Range(walk) = DOMAIN skeleton
           /\ NoRepeat(walk)
           /\ \A n \in DOMAIN skeleton : NoRepeat(ChildrenOf(n))

TenNames == <<"HELLO", "THANK_YOU", "YES", "NO", "GOOD", "BAD",
              "WATER", "FOOD", "HOME", "SCHOOL">>

\* C14: after construction and after any sequence of calls the catalog holds
\* exactly the 10 names HELLO, THANK_YOU, YES, NO, GOOD, BAD, WATER, FOOD, HOME,
\* SCHOOL, and get_available_gestures returns them in this order.
C14_ClosedVocabulary ==
    Constructed
    => /\ gesture_database.keys = TenNames
       /\ DOMAIN gesture_database.vals = Range(TenNames)
       /\ Returned("get_available_gestures") => result = Return(TenNames)

C14_Witness ==
    /\ Returned("get_available_gestures")
    /\ Len(result.value) = 10
    /\ result.value[2] = "THANK_YOU"
    /\ result.value[10] = "SCHOOL"

\* the nominal total duration of a gesture, in seconds
NominalDuration(g) ==
    CASE g \in {"HELLO", "WATER", "SCHOOL"} -> Dec(2, 1)
      [] g \in {"THANK_YOU", "FOOD"} -> Dec(3, 2)
      [] g \in {"YES", "GOOD", "BAD"} -> Dec(1, 1)
      [] g = "NO" -> Dec(6, 5)
      [] g = "HOME" -> Dec(5, 2)

\* C15: the final frame of each catalog gesture has the gesture's nominal
\* duration as its timestamp: HELLO 2.0, THANK_YOU 1.5, YES 1.0, NO 1.2,
\* GOOD 1.0, BAD 1.0, WATER 2.0, FOOD 1.5, HOME 2.5, SCHOOL 2.0.
C15_FinalTimestampIsDuration ==
    Constructed
    => \A g \in Range(TenNames) :
          FinalTimestamp(gesture_database.vals[g]) = NominalDuration(g)

C15_Witness ==
    /\ Constructed
    /\ Len(gesture_database.vals["NO"]) = 13
    /\ gesture_database.vals["NO"][13].timestamp = Dec(12, 10)
    /\ gesture_database.vals["HOME"][21].timestamp = Dec(25, 10)

\* C16: every catalog gesture has at least one frame, its first frame has
\* timestamp 0, and its timestamps never decrease from a frame to the next.
C16_CatalogTimestampsOrdered ==
    Constructed
    => \A g \in Range(gesture_database.keys) :
          LET frames == gesture_database.vals[g]
          IN  /\ Len(frames) >= 1
              /\ frames[1].timestamp = 0
              /\ \A k \in 1..(Len(frames) - 1) :
                    frames[k].timestamp <= frames[k + 1].timestamp

C16_Witness ==
    /\ Constructed
    /\ Len(gesture_database.vals["YES"]) = 9
    /\ gesture_database.vals["YES"][1].timestamp = 0
    /\ gesture_database.vals["YES"][2].timestamp = 0
    /\ gesture_database.vals["YES"][3].timestamp < gesture_database.vals["YES"][4].timestamp

\* C17 as stated: in the sequence animate_text returns, each frame's timestamp
\* is strictly greater than that of the frame before it.
C17_StrictlyIncreasing ==
    Returned("animate_text")
    => \A i \in 1..(Len(result.value) - 1) :
          result.value[i].timestamp < result.value[i + 1].timestamp

\* the places in the timeline of `units` where a gesture's initial frame sits
InitialFrames(db, units) == { FramesBefore(db, units, k) + 1 : k \in DOMAIN units }

\* C17 as amended: each frame's timestamp is strictly greater than that of the
\* frame before it, inside a gesture and across the gap between gestures,
\* except after the initial frame of a gesture: the initial frame and the
\* first sample of every gesture have the same timestamp.
C17_IncreasingButInitialFrames ==
    Returned("animate_text")
    => LET out == result.value
           initial == InitialFrames(gesture_database,
                                    TextUnits(gesture_database, Tokens(call.text)))
       IN  \A i \in 1..(Len(out) - 1) :
              IF i \in initial
              THEN out[i].timestamp = out[i + 1].timestamp
              ELSE out[i].timestamp < out[i + 1].timestamp

C17_Witness ==
    /\ Returned("animate_text")
    /\ Len(Tokens(call.text)) = 2
    /\ Str(Tokens(call.text)[1]) = "YES"
    /\ Str(Tokens(call.text)[2]) = "NO"
    /\ Len(result.value) = 9 + 13
    /\ result.value[9].timestamp = Dec(1, 1)
    /\ result.value[10].timestamp = Dec(3, 2)
    /\ result.value[11].timestamp = Dec(3, 2)

\* the value of the member `key` of a JSON object
Member(object, key) ==
    object.members[CHOOSE i \in DOMAIN object.members : object.members[i][1] = key][2]

MemberNames(object) == [i \in DOMAIN object.members |-> object.members[i][1]]

FramesOf(document) == Member(document, "frames").items

\* C18: for format 'json' and a non-empty frame sequence, export_animation
\* writes a record whose 'duration' is the last input frame's timestamp and
\* whose 'frames' list has the length and order of the input, record k holding
\* frame k's timestamp and a map with one entry per joint name of frame k that
\* gives the joint's position and rotation.
C18_StructuredExport ==
    (Returned("export_animation") /\ call.format = "json" /\ call.frames # <<>>)
    => /\ result.kind = "return"
       /\ Member(result.value, "duration") = JNumber(FinalTimestamp(call.frames))
       /\ Len(FramesOf(result.value)) = Len(call.frames)
       /\ \A k \in DOMAIN call.frames :
             LET record == FramesOf(result.value)[k]
                 joints == call.frames[k].joints
                 map == Member(record, "joints")
             IN  /\ Member(record, "timestamp") = JNumber(call.frames[k].timestamp)
                 /\ Range(MemberNames(map)) = DOMAIN joints
                 /\ NoRepeat(MemberNames(map))
                 /\ \A n \in DOMAIN joints :
                       /\ Member(Member(map, n), "position").items
                            = [c \in 1..3 |-> JNumber(heap[joints[n]].position[c])]
                       /\ Member(Member(map, n), "rotation").items
                            = [c \in 1..3 |-> JNumber(heap[joints[n]].rotation[c])]

C18_Witness ==
    /\ Returned("export_animation")
    /\ call.format = "json"
    /\ Len(call.frames) = 20
    /\ call.frames[12].timestamp = Dec(5, 2)
    /\ result.kind = "return"
    /\ Len(FramesOf(result.value)) = 20
    /\ Member(result.value, "duration") = JNumber(Dec(7, 2))

\* C19: for every format other than 'json' (such as 'bvh', 'fbx') and every
\* frame sequence, export_animation returns the empty result, does not raise,
\* and changes no state of the engine.
C19_UnsupportedFormat ==
    [][(/\ pc = "ready"
        /\ pc' = "returned"
        /\ call'.op = "export_animation"
        /\ call'.format # "json")
       => (/\ result' = Return("")
           /\ UNCHANGED <<heap, skeleton, gesture_database, current_pose,
                          animation_speed>>)]_vars

C19_Witness ==
    /\ Returned("export_animation")
    /\ call.format = "fbx"
    /\ Len(call.frames) = 11
    /\ result = Return("")

\* json.loads of a document export_animation wrote: arrays become lists,
\* objects become dicts
loads_tuple(array) == [c \in DOMAIN array.items |-> array.items[c].value]

loads_joints(object) ==
    [n \in Range(MemberNames(object)) |->
        [position |-> loads_tuple(Member(Member(object, n), "position")),
         rotation |-> loads_tuple(Member(Member(object, n), "rotation"))]]

json_loads(document) ==
    [frames |-> [k \in DOMAIN FramesOf(document) |->
                   [timestamp |-> Member(FramesOf(document)[k], "timestamp").value,
                    joints |-> loads_joints(Member(FramesOf(document)[k], "joints"))]],
     duration |-> Member(document, "duration").value]

\* C20: for a Timeline that animate_gesture or animate_text produced, parsing
\* what export_animation(frames, 'json') wrote recovers, frame by frame in
\* order, the timestamp and, for each joint, the components of the position
\* and of the rotation that the input frame holds.
C20_ExportRoundTrip ==
    (Returned("export_animation") /\ call.format = "json")
    => LET parsed == json_loads(result.value)
       IN  /\ Len(parsed.frames) = Len(call.frames)
           /\ \A k \in DOMAIN call.frames :
                 /\ parsed.frames[k].timestamp = call.frames[k].timestamp
                 /\ DOMAIN parsed.frames[k].joints = DOMAIN call.frames[k].joints
                 /\ \A n \in DOMAIN call.frames[k].joints, c \in 1..3 :
                       /\ parsed.frames[k].joints[n].position[c]
                            = heap[call.frames[k].joints[n]].position[c]
                       /\ parsed.frames[k].joints[n].rotation[c]
                            = heap[call.frames[k].joints[n]].rotation[c]

C20_Witness ==
    /\ Returned("export_animation")
    /\ call.format = "json"
    /\ Len(call.frames) = 16
    /\ FinalTimestamp(call.frames) = Dec(3, 1)
    /\ json_loads(result.value).frames[16].timestamp = Dec(3, 1)
    /\ json_loads(result.value).frames[16].joints["right_hand"].position[1] = Dec(5, 10)

OnlyWhitespace(text) == \A i \in DOMAIN text : text[i] \in Whitespace

\* C21: animate_text of the empty string, and of a text of whitespace only,
\* returns the empty Timeline without error; export_animation([], 'json')
\* returns a record with duration 0 and an empty frame list.
C21_EmptyInput ==
    /\ (Returned("animate_text") /\ OnlyWhitespace(call.text))
       => result = Return(<<>>)
    /\ (Returned("export_animation") /\ call.frames = <<>> /\ call.format = "json")
       => /\ result.kind = "return"
          /\ MemberNames(result.value) = <<"frames", "duration">>
          /\ Member(result.value, "duration") = JNumber(0)
          /\ FramesOf(result.value) = <<>>

\* the Timeline of a text of two blanks, exported
C21_Witness ==
    /\ Returned("export_animation")
    /\ call.format = "json"
    /\ call.frames = animate_text(gesture_database, <<" ", " ">>).value
    /\ call.frames = <<>>
    /\ Member(result.value, "duration") = JNumber(0)
    /\ FramesOf(result.value) = <<>>

\* a letter in the other case; any other character as it is
ToggleCase(c) ==
    IF \E j \in DOMAIN LowerCase : LowerCase[j] = c
    THEN UpperCase[CHOOSE j \in DOMAIN LowerCase : LowerCase[j] = c]
    ELSE IF \E j \in DOMAIN UpperCase : UpperCase[j] = c
         THEN LowerCase[CHOOSE j \in DOMAIN UpperCase : UpperCase[j] = c]
         ELSE c

\* The texts one edit away from `text` that has the same tokens up to case:
\* one letter in the other case, one whitespace character put before the text,
\* after it or next to a whitespace character, or one whitespace character
\* replaced by another.  Two texts have the same tokens up to case exactly when
\* a chain of such edits leads from one to the other.
SameTokenEdits(text) ==
    { [text EXCEPT ![i] = ToggleCase(text[i])] : i \in DOMAIN text }
    \cup { <<w>> \o text : w \in Whitespace }
    \cup { text \o <<w>> : w \in Whitespace }
    \cup UNION { { SubSeq(text, 1, i) \o <<w>> \o SubSeq(text, i + 1, Len(text)),
                   [text EXCEPT ![i] = w] } :
                 i \in { j \in DOMAIN text : text[j] \in Whitespace },
                 w \in Whitespace }

\* C22: animate_text gives the same Timeline for two texts that have the same
\* sequence of whitespace-delimited tokens up to letter case; a token matches a
\* catalog name when its upper-cased form is the name.
C22_TokenNormalization ==
    Returned("animate_text")
    => \A other \in SameTokenEdits(call.text) :
          animate_text(gesture_database, other) = result

C22_Witness ==
    /\ Returned("animate_text")
    /\ call.text = <<" ", "y", "e", "s", " ", "\t", "N", "o", " ">>
    /\ result = animate_text(gesture_database, <<"Y", "E", "S", " ", "N", "O">>)
    /\ Len(result.value) = 9 + 13

\* C23: for a catalog gesture g, animate_gesture(g) with the duration omitted
\* returns the catalog's frame sequence of g: as many frames, in the same
\* order, with the same timestamps and the same poses.
C23_UnscaledIsCatalog ==
    (/\ Returned("animate_gesture")
     /\ HasKey(gesture_database, call.gesture_name)
     /\ call.duration = NoDuration)
    => LET catalog == gesture_database.vals[call.gesture_name]
       IN  /\ result.kind = "return"
           /\ Len(result.value) = Len(catalog)
           /\ \A k \in DOMAIN catalog :
                 /\ result.value[k].timestamp = catalog[k].timestamp
                 /\ result.value[k].joints = catalog[k].joints

C23_Witness ==
    /\ Returned("animate_gesture")
    /\ call.gesture_name = "HOME"
    /\ call.duration = NoDuration
    /\ Len(result.value) = 21
    /\ result.value[11].timestamp = Dec(225, 190)
    /\ FinalTimestamp(result.value) = Dec(25, 10)

\* the engine's fields the runtime operations read
Engine == [heap |-> heap, gesture_database |-> gesture_database]

\* what the call c returns on the engine e
Outcome(e, c) ==
    CASE c.op = "animate_gesture" -> animate_gesture(e.gesture_database, c.gesture_name, c.duration)
      [] c.op = "animate_text" -> animate_text(e.gesture_database, c.text)
      [] c.op = "get_available_gestures" -> get_available_gestures(e.gesture_database)
      [] c.op = "export_animation" -> export_animation(e.heap, c.frames, c.format)

\* C24: after construction, every animate_gesture, animate_text,
\* get_available_gestures and export_animation call leaves the skeleton, the
\* Joint objects, the catalog, current_pose and animation_speed as they were,
\* and returns what its arguments and these unchanged fields determine; so a
\* call repeated after any sequence of calls returns an equal result.
C24_RuntimeOperationsPure ==
    [][Constructed
       => (/\ UNCHANGED <<heap, skeleton, gesture_database, current_pose, animation_speed>>
           /\ pc' = "returned" => result' = Outcome(Engine, call'))]_vars

\* a rescaled gesture returned by an engine whose fields are those __init__ set
C24_Witness ==
    /\ Returned("animate_gesture")
    /\ call.gesture_name = "WATER"
    /\ call.duration = Some(Dec(3, 1))
    /\ result = Outcome(Engine, call)
    /\ FinalTimestamp(result.value) = Dec(3, 1)
    /\ Len(gesture_database.vals["WATER"]) = 16
    /\ FinalTimestamp(gesture_database.vals["WATER"]) = Dec(2, 1)
    /\ current_pose = EmptyDict
    /\ animation_speed = Dec(10, 10)

C27_PoseCompleteness ==
    Constructed
    => /\ \A g \in Range(gesture_database.keys) :
             \A k \in DOMAIN gesture_database.vals[g] :
                DOMAIN gesture_database.vals[g][k].joints = DOMAIN skeleton
       /\ (Returned("animate_gesture") \/ Returned("animate_text"))
          => \A k \in DOMAIN result.value :
                DOMAIN result.value[k].joints = DOMAIN skeleton

C27_Witness ==
    /\ Returned("animate_text")
    /\ Len(result.value) = 11 + 9 + 13
    /\ Cardinality(DOMAIN skeleton) = 12
    /\ \A k \in DOMAIN result.value : DOMAIN result.value[k].joints = JointNames
    /\ Cardinality(DOMAIN gesture_database.vals["SCHOOL"][16].joints) = 12

\* the number of samples the builder of a gesture takes
Samples(g) ==
    CASE g \in {"HELLO", "GOOD", "BAD"} -> 10
      [] g \in {"THANK_YOU", "WATER", "SCHOOL"} -> 15
      [] g = "YES" -> 8
      [] g \in {"NO", "FOOD"} -> 12
      [] g = "HOME" -> 20

\* C29: each catalog gesture has one initial frame plus one frame per sample:
\* HELLO 11, THANK_YOU 16, YES 9, NO 13, GOOD 11, BAD 11, WATER 16, FOOD 13,
\* HOME 21, SCHOOL 16 frames; the first sample is taken at t = 0, so the first
\* two frames of every gesture have timestamp 0.
C29_FrameCounts ==
    Constructed
    => /\ \A g \in Range(TenNames) :
             LET frames == gesture_database.vals[g]
             IN  /\ Len(frames) = 1 + Samples(g)
                 /\ frames[1].timestamp = 0
                 /\ frames[2].timestamp = 0
       /\ [k \in 1..10 |-> Len(gesture_database.vals[TenNames[k]])]
            = <<11, 16, 9, 13, 11, 11, 16, 13, 21, 16>>

C29_Witness ==
    /\ Constructed
    /\ Len(gesture_database.vals["HOME"]) = 21
    /\ gesture_database.vals["HOME"][2].timestamp = 0
    /\ gesture_database.vals["HOME"][3].timestamp = Dec(25, 190)
    /\ Len(gesture_database.vals["YES"]) = 9

\* the tokens that are catalog names, in order
RECURSIVE KnownTokens(_, _)
KnownTokens(db, words) ==
    IF words = <<>> THEN <<>>
    ELSE (IF HasKey(db, Str(words[1])) THEN <<words[1]>> ELSE <<>>)
         \o KnownTokens(db, Tail(words))

\* C30: no catalog name is a single character, so the letter branch of
\* animate_text emits no frame: for every text the Timeline is the Timeline of
\* the text with the tokens that are no catalog names removed, and a text with
\* no catalog token ("HELLO," with the comma attached) gives the empty Timeline.
C30_LetterBranchEmitsNothing ==
    /\ Constructed => \A k \in DOMAIN gesture_database.keys :
                         Len(gesture_database.keys[k]) > 1
    /\ Returned("animate_text")
       => LET known == KnownTokens(gesture_database, Tokens(call.text))
          IN  /\ result = animate_text(gesture_database, join(known, <<" ">>))
              /\ known = <<>> => result = Return(<<>>)

C30_Witness ==
    /\ Returned("animate_text")
    /\ Len(Tokens(call.text)) = 3
    /\ Str(Tokens(call.text)[1]) = "HELLO,"
    /\ Str(Tokens(call.text)[2]) = "YES"
    /\ Str(Tokens(call.text)[3]) = "ZZ"
    /\ result = animate_text(gesture_database, <<"Y", "E", "S">>)
    /\ Len(result.value) = 9
    /\ animate_text(gesture_database, <<"H", "E", "L", "L", "O", ",">>) = Return(<<>>)

\* the height 1.2 + 0.3 * i / 14 of the hands in sample i of THANK_YOU
ThankYouHeight(i) == Dec(12, 10) + (i * Dec(3, 10)) \div 14

\* the height at which the frame shows the hand `n`
HandHeight(frame, n) == heap[frame.joints[n]].position[2]

\* C28: in the catalog's THANK_YOU gesture the frame of sample i, i = 0..14,
\* has timestamp 1.5 * i / 14 and holds left_hand and right_hand at height
\* 1.2 + 0.3 * i / 14: 1.2 in the first sample, 1.5 in the last, and strictly
\* higher from each sampled frame to the next; no later sample and no later
\* builder overwrites what an earlier frame stores.
C28_ThankYouHeights ==
    Constructed
    => LET frames == gesture_database.vals["THANK_YOU"]
       IN  /\ \A i \in 0..14 :
                 /\ frames[i + 2].timestamp = (i * Dec(15, 10)) \div 14
                 /\ HandHeight(frames[i + 2], "left_hand") = ThankYouHeight(i)
                 /\ HandHeight(frames[i + 2], "right_hand") = ThankYouHeight(i)
           /\ \A i \in 0..13 :
                 HandHeight(frames[i + 2], "left_hand")
                   < HandHeight(frames[i + 3], "left_hand")

\* the Joint objects the frames of a Timeline hold
JointsOf(frames) ==
    UNION { { frames[k].joints[n] : n \in DOMAIN frames[k].joints } : k \in DOMAIN frames }

\* the Joint objects the catalog's frames hold
CatalogJoints ==
    UNION { JointsOf(gesture_database.vals[g]) : g \in Range(gesture_database.keys) }

\* C25: the Timeline an animate_gesture or animate_text call returns shares no
\* mutable object with the catalog or with the Timeline of another call: no
\* Joint that one of its frames holds is held by a frame of the catalog or by
\* a frame that another call returns, so that a caller writing to its Timeline
\* changes nothing a later call returns.
C25_NoSharedMutableObjects ==
    (Returned("animate_gesture") \/ Returned("animate_text"))
    => /\ JointsOf(result.value) \cap CatalogJoints = {}
       /\ \A g \in Range(gesture_database.keys) :
             JointsOf(result.value)
               \cap JointsOf(animate_gesture(gesture_database, g, Some(Dec(1, 1))).value) = {}

====
